---- MODULE Spec2Model ----
(***************************************************************************)
(* dirverify: generation of a checksum manifest over a directory tree    *)
(* (generate_checksums) and verification of a tree against a manifest     *)
(* (verify_checksums), src/src/main.rs and src/src/hashing.rs.             *)
(*                                                                         *)
(* Strings are sequences of one-character strings.  A file name on disk is *)
(* a sequence of OS bytes: its elements are characters, or one of the      *)
(* markers in InvalidBytes, each standing for one byte that is not valid   *)
(* UTF-8.  Option<T> is a sequence of length 0 (None) or 1 (Some).         *)
(***************************************************************************)
EXTENDS Integers, Sequences, FiniteSets, TLC

\* ------------------------------------------------------------------ bounds
MaxFiles == 3        \* regular files in the tree
MaxThreads == 2      \* largest --threads value
DefaultThreads == 2  \* pool size of the platform when --threads is 0
MaxRuns == 2         \* generation runs over the same tree
MaxChanges == 1      \* changes to the tree between generation and verification
MaxTime == 2         \* largest modification time
MaxContent == 3      \* longest file content hash_file is stepped through

\* ------------------------------------------------------------ Option<T>
None == <<>>
Some(v) == <<v>>
IsSome(o) == Len(o) = 1
Unwrap(o) == o[1]

\* --------------------------------------------------------------- strings
InvalidBytes == {"xFE", "xFF"}
ReplacementChar == "uFFFD"

\* the characters of the model in code point order (str::cmp compares the
\* UTF-8 bytes, which orders strings by code point)
CharOrder == <<"!", "*", ".", "/", "?", "[", "]", "a", "b", "c", "d", "f", "g",
               "i", "m", "n", "o", "p", "t", "x", "uFFFD">>

CharCode(c) == CHOOSE k \in 1..Len(CharOrder) : CharOrder[k] = c

RECURSIVE StrCmp(_, _)
\* String::cmp: -1, 0, 1 for less, equal, greater (lexicographic)
StrCmp(a, b) ==
    IF a = <<>> THEN (IF b = <<>> THEN 0 ELSE -1)
    ELSE IF b = <<>> THEN 1
    ELSE IF CharCode(Head(a)) < CharCode(Head(b)) THEN -1
    ELSE IF CharCode(Head(a)) > CharCode(Head(b)) THEN 1
    ELSE StrCmp(Tail(a), Tail(b))

\* Path::to_str: Some(s) only when every byte sequence is valid UTF-8
to_str(p) == IF \E k \in 1..Len(p) : p[k] \in InvalidBytes THEN None ELSE Some(p)

\* Path::to_string_lossy: every invalid byte becomes U+FFFD
to_string_lossy(p) ==
    [k \in 1..Len(p) |-> IF p[k] \in InvalidBytes THEN ReplacementChar ELSE p[k]]

is_separator(c) == c = "/"

\* Path::join for a relative second path
Join(base, rel) ==
    IF base = <<>> THEN rel
    ELSE IF is_separator(base[Len(base)]) THEN base \o rel
    ELSE base \o <<"/">> \o rel

IsPrefix(p, s) == Len(p) <= Len(s) /\ SubSeq(s, 1, Len(p)) = p

\* Path::strip_prefix(base).unwrap_or(path), base a directory above path
StripPrefix(path, base) ==
    LET b == IF base # <<>> /\ is_separator(base[Len(base)]) THEN base
             ELSE base \o <<"/">>
    IN  IF IsPrefix(b, path) THEN SubSeq(path, Len(b) + 1, Len(path)) ELSE path

\* ------------------------------------------------- glob::Pattern (crate)
\* tokens of a compiled pattern
TChar(c) == [kind |-> "Char", c |-> c, set |-> {}]
TAnyChar == [kind |-> "AnyChar", c |-> "", set |-> {}]
TAnySequence == [kind |-> "AnySequence", c |-> "", set |-> {}]
TAnyRecursiveSequence == [kind |-> "AnyRecursiveSequence", c |-> "", set |-> {}]
TAnyWithin(s) == [kind |-> "AnyWithin", c |-> "", set |-> s]
TAnyExcept(s) == [kind |-> "AnyExcept", c |-> "", set |-> s]

\* position (1-based) of the first "]" in chars at or after from, 0 if none
RECURSIVE FindClose(_, _)
FindClose(chars, from) ==
    IF from > Len(chars) THEN 0
    ELSE IF chars[from] = "]" THEN from
    ELSE FindClose(chars, from + 1)

\* number of consecutive "*" starting at position i
RECURSIVE StarRun(_, _)
StarRun(chars, i) ==
    IF i <= Len(chars) /\ chars[i] = "*" THEN 1 + StarRun(chars, i + 1) ELSE 0

SetOfSeq(s) == {s[k] : k \in 1..Len(s)}

RECURSIVE PatternParse(_, _, _)
\* Pattern::new, scanning chars from position i (1-based) with the tokens
\* collected so far: [ok |-> TRUE, tokens] or [ok |-> FALSE] (PatternError)
PatternParse(chars, i, tokens) ==
    IF i > Len(chars) THEN [ok |-> TRUE, tokens |-> tokens]
    ELSE LET c == chars[i] IN
      CASE c = "?" -> PatternParse(chars, i + 1, Append(tokens, TAnyChar))
        [] c = "*" ->
             LET count == StarRun(chars, i)
                 j == i + count      \* first position after the stars
             IN  IF count > 2 THEN [ok |-> FALSE, tokens |-> <<>>]
                 ELSE IF count = 2 THEN
                     IF i = 1 \/ is_separator(chars[i - 1]) THEN
                         IF j <= Len(chars) /\ ~is_separator(chars[j])
                         THEN [ok |-> FALSE, tokens |-> <<>>]
                         ELSE LET next == IF j <= Len(chars) THEN j + 1 ELSE j
                                  toks == IF Len(tokens) > 1
                                             /\ tokens[Len(tokens)] = TAnyRecursiveSequence
                                          THEN tokens
                                          ELSE Append(tokens, TAnyRecursiveSequence)
                              IN  PatternParse(chars, next, toks)
                     ELSE [ok |-> FALSE, tokens |-> <<>>]
                 ELSE PatternParse(chars, j, Append(tokens, TAnySequence))
        [] c = "[" ->
             IF i + 3 <= Len(chars) /\ chars[i + 1] = "!"
                /\ FindClose(chars, i + 3) # 0
             THEN LET e == FindClose(chars, i + 3)
                  IN  PatternParse(chars, e + 1,
                        Append(tokens, TAnyExcept(SetOfSeq(SubSeq(chars, i + 2, e - 1)))))
             ELSE IF i + 2 <= Len(chars) /\ chars[i + 1] # "!"
                /\ FindClose(chars, i + 2) # 0
             THEN LET e == FindClose(chars, i + 2)
                  IN  PatternParse(chars, e + 1,
                        Append(tokens, TAnyWithin(SetOfSeq(SubSeq(chars, i + 1, e - 1)))))
             ELSE [ok |-> FALSE, tokens |-> <<>>]
        [] OTHER -> PatternParse(chars, i + 1, Append(tokens, TChar(c)))

\* Pattern::new(p)
PatternNew(p) == PatternParse(p, 1, <<>>)

TokenAccepts(t, c) ==
    CASE t.kind = "AnyChar" -> TRUE
      [] t.kind = "AnyWithin" -> c \in t.set
      [] t.kind = "AnyExcept" -> c \notin t.set
      [] OTHER -> c = t.c

RECURSIVE matches_from(_, _, _, _)
RECURSIVE matches_seq(_, _, _, _)
\* Pattern::matches_from under the default MatchOptions: "Match",
\* "SubPatternDoesntMatch" or "EntirePatternDoesntMatch"
matches_from(follows_separator, file, i, tokens) ==
    IF i > Len(tokens)
    THEN (IF file = <<>> THEN "Match" ELSE "SubPatternDoesntMatch")
    ELSE IF tokens[i].kind \in {"AnySequence", "AnyRecursiveSequence"}
    THEN LET m == matches_from(follows_separator, file, i + 1, tokens)
         IN  IF m # "SubPatternDoesntMatch" THEN m
             ELSE matches_seq(follows_separator, file, i, tokens)
    ELSE IF file = <<>> THEN "EntirePatternDoesntMatch"
    ELSE IF ~TokenAccepts(tokens[i], Head(file)) THEN "SubPatternDoesntMatch"
    ELSE matches_from(is_separator(Head(file)), Tail(file), i + 1, tokens)

\* the while loop of a "*" or "**" token: lets the token swallow one more
\* character at a time ("**" may stop only after a separator)
matches_seq(follows_separator, file, i, tokens) ==
    IF file = <<>> THEN matches_from(follows_separator, file, i + 1, tokens)
    ELSE LET sep == is_separator(Head(file)) IN
         IF tokens[i].kind = "AnyRecursiveSequence" /\ ~sep
         THEN matches_seq(sep, Tail(file), i, tokens)
         ELSE LET m == matches_from(sep, Tail(file), i + 1, tokens)
              IN  IF m # "SubPatternDoesntMatch" THEN m
                  ELSE matches_seq(sep, Tail(file), i, tokens)

\* Pattern::matches(s)
PatternMatches(tokens, s) == matches_from(TRUE, s, 1, tokens) = "Match"

\* the filter_map of generate_checksums: the patterns that compile
RECURSIVE CompilePatterns(_)
CompilePatterns(ps) ==
    IF ps = <<>> THEN <<>>
    ELSE LET r == PatternNew(Head(ps))
         IN  (IF r.ok THEN <<r.tokens>> ELSE <<>>) \o CompilePatterns(Tail(ps))

\* a faulty variant: a file is excluded only when every pattern matches it
should_exclude_all(path, patterns) ==
    /\ patterns # <<>>
    /\ \A k \in 1..Len(patterns) :
        IF IsSome(to_str(path)) THEN PatternMatches(patterns[k], Unwrap(to_str(path)))
        ELSE FALSE

should_exclude(path, patterns) ==
    \E k \in 1..Len(patterns) :
        IF IsSome(to_str(path)) THEN PatternMatches(patterns[k], Unwrap(to_str(path)))
        ELSE FALSE

\* ------------------------------------------------------------ hashing.rs
Algorithms == {"Sha256", "Md5", "Crc32", "Blake2", "Xxh3"}

BufferSize == 65536
Sha256Bytes == 32
Md5Bytes == 16
Blake2Bytes == 32
Crc32Width == 8
Xxh3Width == 16

\* The digest functions are library code: each is modelled as a streaming
\* accumulator over a 16-bit state with its own seed and multiplier, so that
\* different algorithms and different contents give different digests.
HashModulus == 65536

HasherNew(algorithm) ==
    CASE algorithm = "Sha256" -> 1
      [] algorithm = "Md5" -> 2
      [] algorithm = "Crc32" -> 0
      [] algorithm = "Blake2" -> 3
      [] algorithm = "Xxh3" -> 4

HasherMult(algorithm) ==
    CASE algorithm = "Sha256" -> 31
      [] algorithm = "Md5" -> 37
      [] algorithm = "Crc32" -> 41
      [] algorithm = "Blake2" -> 43
      [] algorithm = "Xxh3" -> 47

RECURSIVE HasherUpdate(_, _, _)
\* hasher.update(&buffer[..bytes_read]) / context.consume(..)
HasherUpdate(algorithm, state, chunk) ==
    IF chunk = <<>> THEN state
    ELSE HasherUpdate(algorithm,
                      (state * HasherMult(algorithm) + Head(chunk) + 1) % HashModulus,
                      Tail(chunk))

HexDigits == <<"0", "1", "2", "3", "4", "5", "6", "7", "8", "9",
               "a", "b", "c", "d", "e", "f">>

RECURSIVE LowerHex(_)
\* format!("{:x}", n) of an unsigned integer: no leading zeros
LowerHex(n) ==
    IF n < 16 THEN <<HexDigits[n + 1]>>
    ELSE Append(LowerHex(n \div 16), HexDigits[(n % 16) + 1])

\* a faulty variant: the width of the format is dropped, nothing is padded
PadHex_nopad(n, w) == LowerHex(n)

\* format!("{:0w$x}", n): zero-padded on the left to at least w digits
PadHex(n, w) ==
    LET h == LowerHex(n)
    IN  IF Len(h) >= w THEN h ELSE [k \in 1..(w - Len(h)) |-> "0"] \o h

RECURSIVE Pow256(_)
Pow256(k) == IF k = 0 THEN 1 ELSE 256 * Pow256(k - 1)

\* the n output bytes of a digest, big-endian (the accumulator fills the
\* low bytes only)
DigestBytes(v, n) ==
    [k \in 1..n |-> IF n - k >= 3 THEN 0 ELSE (v \div Pow256(n - k)) % 256]

RECURSIVE BytesHex(_)
\* format!("{:x}", bytes) of a digest byte array: two digits for every byte
BytesHex(bytes) ==
    IF bytes = <<>> THEN <<>>
    ELSE PadHex(Head(bytes), 2) \o BytesHex(Tail(bytes))

\* hasher.finalize() / context.compute() / hasher.digest() and the format!
HasherFinalize(algorithm, state) ==
    CASE algorithm = "Sha256" -> BytesHex(DigestBytes(state, Sha256Bytes))
      [] algorithm = "Md5" -> BytesHex(DigestBytes(state, Md5Bytes))
      [] algorithm = "Crc32" -> PadHex(state, Crc32Width)
      [] algorithm = "Blake2" -> BytesHex(DigestBytes(state, Blake2Bytes))
      [] algorithm = "Xxh3" -> PadHex(state, Xxh3Width)

Min(a, b) == IF a <= b THEN a ELSE b

RECURSIVE ReadLoop(_, _, _)
\* the loop of hash_file: every read fills the buffer as far as the file
\* goes; a read of zero bytes ends it
ReadLoop(algorithm, state, rest) ==
    IF rest = <<>> THEN state
    ELSE LET n == Min(Len(rest), BufferSize)
         IN  ReadLoop(algorithm, HasherUpdate(algorithm, state, SubSeq(rest, 1, n)),
                      SubSeq(rest, n + 1, Len(rest)))

\* A directory entry of the tree on disk:
\*   name     path below the root, as OS bytes
\*   kind     "file" or "dir"
\*   exists   FALSE once removed
\*   content  the bytes of a regular file
\*   mtime    modification time, seconds since the epoch
\*   readable whether File::open and read succeed
\*   meta     "ok", "err" (fs::metadata fails), "lost" (fs::metadata fails
\*            from its second call on: the entry was still there for
\*            Path::exists) or "nomtime" (modified() or duration_since fails)
Err == [ok |-> FALSE, val |-> <<>>]
Ok(v) == [ok |-> TRUE, val |-> v]

\* hash_file(path, algorithm) for the directory entry f at path
hash_file(f, algorithm) ==
    IF ~f.exists \/ ~f.readable \/ f.kind # "file" THEN Err
    ELSE Ok(HasherFinalize(algorithm, ReadLoop(algorithm, HasherNew(algorithm), f.content)))

\* ---------------------------------------------------------------- main.rs
\* impl From<Algorithm> for HashAlgorithm
FromAlgorithm(algo) == algo

\* format!("{:?}", args.algorithm).to_lowercase()
RECURSIVE to_lowercase(_)
to_lowercase(s) ==
    IF s = <<>> THEN <<>>
    ELSE <<CASE Head(s) = "S" -> "s" [] Head(s) = "M" -> "m" [] Head(s) = "C" -> "c"
             [] Head(s) = "B" -> "b" [] Head(s) = "X" -> "x" [] OTHER -> Head(s)>>
         \o to_lowercase(Tail(s))

DebugName(algo) ==
    CASE algo = "Sha256" -> <<"S", "h", "a", "2", "5", "6">>
      [] algo = "Md5" -> <<"M", "d", "5">>
      [] algo = "Crc32" -> <<"C", "r", "c", "3", "2">>
      [] algo = "Blake2" -> <<"B", "l", "a", "k", "e", "2">>
      [] algo = "Xxh3" -> <<"X", "x", "h", "3">>

AlgorithmName(algo) == to_lowercase(DebugName(algo))

\* a faulty variant: an unknown name falls back to MD5
ParseAlgorithm_md5(name) ==
    CASE name = <<"s", "h", "a", "2", "5", "6">> -> "Sha256"
      [] name = <<"m", "d", "5">> -> "Md5"
      [] name = <<"c", "r", "c", "3", "2">> -> "Crc32"
      [] name = <<"b", "l", "a", "k", "e", "2">> -> "Blake2"
      [] name = <<"x", "x", "h", "3">> -> "Xxh3"
      [] OTHER -> "Md5"

\* the match on checksum_file.algorithm in verify_checksums
ParseAlgorithm(name) ==
    CASE name = <<"s", "h", "a", "2", "5", "6">> -> "Sha256"
      [] name = <<"m", "d", "5">> -> "Md5"
      [] name = <<"c", "r", "c", "3", "2">> -> "Crc32"
      [] name = <<"b", "l", "a", "k", "e", "2">> -> "Blake2"
      [] name = <<"x", "x", "h", "3">> -> "Xxh3"
      [] OTHER -> "Sha256"

\* ChecksumEntry
ChecksumEntry(path, hash, modified, size) ==
    [path |-> path, hash |-> hash, modified |-> modified, size |-> size]

\* a faulty variant: a failing metadata read is swallowed, the entry goes without metadata
process_file_lenient(f, relative_path, algorithm, include_metadata) ==
    LET hash == hash_file(f, algorithm) IN
    IF ~hash.ok THEN Err
    ELSE IF include_metadata /\ f.meta = "ok"
    THEN Ok(ChecksumEntry(relative_path, hash.val, Some(f.mtime), Some(Len(f.content))))
    ELSE Ok(ChecksumEntry(relative_path, hash.val, None, None))

\* a faulty variant: the size is left out of the metadata
process_file_nosize(f, relative_path, algorithm, include_metadata) ==
    LET hash == hash_file(f, algorithm) IN
    IF ~hash.ok THEN Err
    ELSE IF include_metadata
    THEN IF f.meta # "ok" THEN Err
         ELSE Ok(ChecksumEntry(relative_path, hash.val, Some(f.mtime), None))
    ELSE Ok(ChecksumEntry(relative_path, hash.val, None, None))

\* a faulty variant: the metadata is captured whatever include_metadata is
process_file_always(f, relative_path, algorithm, include_metadata) ==
    LET hash == hash_file(f, algorithm) IN
    IF ~hash.ok THEN Err
    ELSE IF f.meta # "ok" THEN Err
    ELSE Ok(ChecksumEntry(relative_path, hash.val, Some(f.mtime), Some(Len(f.content))))

\* process_file(path, relative_path, algorithm, include_metadata)
process_file(f, relative_path, algorithm, include_metadata) ==
    LET hash == hash_file(f, algorithm) IN
    IF ~hash.ok THEN Err
    ELSE IF include_metadata
    THEN IF f.meta # "ok" THEN Err
         ELSE Ok(ChecksumEntry(relative_path, hash.val, Some(f.mtime), Some(Len(f.content))))
    ELSE Ok(ChecksumEntry(relative_path, hash.val, None, None))

\* serde: Serialize for ChecksumEntry (skip_serializing_if = Option::is_none)
SerializeEntry(e) ==
    LET keys == {"path", "hash"}
                 \cup (IF IsSome(e.modified) THEN {"modified"} ELSE {})
                 \cup (IF IsSome(e.size) THEN {"size"} ELSE {})
    IN  [k \in keys |-> CASE k = "path" -> e.path
                          [] k = "hash" -> e.hash
                          [] k = "modified" -> Unwrap(e.modified)
                          [] k = "size" -> Unwrap(e.size)]

\* serde: Deserialize for ChecksumEntry (an absent Option field is None)
DeserializeEntry(o) ==
    ChecksumEntry(o["path"], o["hash"],
                  IF "modified" \in DOMAIN o THEN Some(o["modified"]) ELSE None,
                  IF "size" \in DOMAIN o THEN Some(o["size"]) ELSE None)

\* serde_json::to_string_pretty(&checksum_file)
Serialize(cf) ==
    [version |-> cf.version, algorithm |-> cf.algorithm,
     entries |-> [k \in 1..Len(cf.entries) |-> SerializeEntry(cf.entries[k])]]

\* serde_json::from_reader(reader)
Deserialize(json) ==
    [version |-> json.version, algorithm |-> json.algorithm,
     entries |-> [k \in 1..Len(json.entries) |-> DeserializeEntry(json.entries[k])]]

RECURSIVE InsertSorted(_, _)
\* puts e behind every element whose path is not greater (stable)
InsertSorted(sorted, e) ==
    IF sorted = <<>> THEN <<e>>
    ELSE IF StrCmp(Head(sorted).path, e.path) <= 0
    THEN <<Head(sorted)>> \o InsertSorted(Tail(sorted), e)
    ELSE <<e>> \o sorted

RECURSIVE SortByPath(_)
\* entries.sort_by(|a, b| a.path.cmp(&b.path)): a stable sort
SortByPath(es) ==
    IF es = <<>> THEN <<>>
    ELSE InsertSorted(SortByPath(SubSeq(es, 1, Len(es) - 1)), es[Len(es)])

\* Path::exists: fs::metadata(path).is_ok()
path_exists(f) == f.exists /\ f.meta # "err"

\* VerifyResult
VOk == [kind |-> "Ok", msg |-> <<>>]
VFailed(msg) == [kind |-> "Failed", msg |-> msg]
VSkipped(msg) == [kind |-> "Skipped", msg |-> msg]

\* a faulty variant: the mismatch message repeats the expected digest
verify_single_file_msg(f, entry, algorithm, skip_newer) ==
    IF ~path_exists(f) THEN VFailed(<<"File not found">>)
    ELSE IF skip_newer /\ IsSome(entry.modified) /\ f.meta = "lost"
    THEN VFailed(<<"Cannot read metadata">>)
    ELSE IF skip_newer /\ IsSome(entry.modified) /\ f.meta = "ok"
            /\ f.mtime > Unwrap(entry.modified)
    THEN VSkipped(<<"File is newer on target">>)
    ELSE LET hash == hash_file(f, algorithm) IN
         IF ~hash.ok THEN VFailed(<<"Cannot compute hash">>)
         ELSE IF hash.val = entry.hash THEN VOk
         ELSE VFailed(<<"Hash mismatch: expected ", entry.hash, ", got ", entry.hash>>)

\* a faulty variant: the digest is compared before the skip-newer check
verify_single_file_hashfirst(f, entry, algorithm, skip_newer) ==
    IF ~path_exists(f) THEN VFailed(<<"File not found">>)
    ELSE LET hash == hash_file(f, algorithm) IN
         IF ~hash.ok THEN VFailed(<<"Cannot compute hash">>)
         ELSE IF hash.val # entry.hash
         THEN VFailed(<<"Hash mismatch: expected ", entry.hash, ", got ", hash.val>>)
         ELSE IF skip_newer /\ IsSome(entry.modified) /\ f.meta = "lost"
         THEN VFailed(<<"Cannot read metadata">>)
         ELSE IF skip_newer /\ IsSome(entry.modified) /\ f.meta = "ok"
                 /\ f.mtime > Unwrap(entry.modified)
         THEN VSkipped(<<"File is newer on target">>)
         ELSE VOk

\* a faulty variant: a digest that cannot be computed counts as a match
verify_single_file_noerr(f, entry, algorithm, skip_newer) ==
    IF ~path_exists(f) THEN VFailed(<<"File not found">>)
    ELSE IF skip_newer /\ IsSome(entry.modified) /\ f.meta = "lost"
    THEN VFailed(<<"Cannot read metadata">>)
    ELSE IF skip_newer /\ IsSome(entry.modified) /\ f.meta = "ok"
            /\ f.mtime > Unwrap(entry.modified)
    THEN VSkipped(<<"File is newer on target">>)
    ELSE LET hash == hash_file(f, algorithm) IN
         IF ~hash.ok THEN VOk
         ELSE IF hash.val = entry.hash THEN VOk
         ELSE VFailed(<<"Hash mismatch: expected ", entry.hash, ", got ", hash.val>>)

\* a faulty variant: a target as old as recorded is skipped too
verify_single_file_ge(f, entry, algorithm, skip_newer) ==
    IF ~path_exists(f) THEN VFailed(<<"File not found">>)
    ELSE IF skip_newer /\ IsSome(entry.modified) /\ f.meta = "lost"
    THEN VFailed(<<"Cannot read metadata">>)
    ELSE IF skip_newer /\ IsSome(entry.modified) /\ f.meta = "ok"
            /\ f.mtime >= Unwrap(entry.modified)
    THEN VSkipped(<<"File is newer on target">>)
    ELSE LET hash == hash_file(f, algorithm) IN
         IF ~hash.ok THEN VFailed(<<"Cannot compute hash">>)
         ELSE IF hash.val = entry.hash THEN VOk
         ELSE VFailed(<<"Hash mismatch: expected ", entry.hash, ", got ", hash.val>>)

\* a faulty variant: the skip-newer block runs before the existence check
verify_single_file_policyfirst(f, entry, algorithm, skip_newer) ==
    IF skip_newer /\ IsSome(entry.modified) /\ (~path_exists(f) \/ f.meta = "lost")
    THEN VFailed(<<"Cannot read metadata">>)
    ELSE IF ~path_exists(f) THEN VFailed(<<"File not found">>)
    ELSE IF skip_newer /\ IsSome(entry.modified) /\ f.meta = "ok"
            /\ f.mtime > Unwrap(entry.modified)
    THEN VSkipped(<<"File is newer on target">>)
    ELSE LET hash == hash_file(f, algorithm) IN
         IF ~hash.ok THEN VFailed(<<"Cannot compute hash">>)
         ELSE IF hash.val = entry.hash THEN VOk
         ELSE VFailed(<<"Hash mismatch: expected ", entry.hash, ", got ", hash.val>>)

\* verify_single_file(path, entry, algorithm, skip_newer), f the directory
\* entry that path resolves to (exists = FALSE when it resolves to nothing)
verify_single_file(f, entry, algorithm, skip_newer) ==
    IF ~path_exists(f) THEN VFailed(<<"File not found">>)
    ELSE IF skip_newer /\ IsSome(entry.modified) /\ f.meta = "lost"
    THEN VFailed(<<"Cannot read metadata">>)
    ELSE IF skip_newer /\ IsSome(entry.modified) /\ f.meta = "ok"
            /\ f.mtime > Unwrap(entry.modified)
    THEN VSkipped(<<"File is newer on target">>)
    ELSE LET hash == hash_file(f, algorithm) IN
         IF ~hash.ok THEN VFailed(<<"Cannot compute hash">>)
         ELSE IF hash.val = entry.hash THEN VOk
         ELSE VFailed(<<"Hash mismatch: expected ", entry.hash, ", got ", hash.val>>)

\* ----------------------------------------------------------------- state
VARIABLES
    droot,          \* the path of the tree on disk
    disk,           \* its directory entries, in the order WalkDir yields them
    snapshot,       \* the entries as the last generation run found them
    changed,        \* indices of the entries changed since the manifest was written
    writable,       \* whether the file named by --output can be written
    mfile,          \* the checksum file: [status, json], status "missing", "garbage" or "ok"
    args,           \* Args of the running process
    pc,             \* where the running process is
    files,          \* generate_checksums: the scanned files (indices into disk)
    work,           \* per scanned file or manifest entry: "pending", "running", "done"
    order,          \* the items in the order their workers finished
    results,        \* per item: None or Some(result) (rayon's collect keeps item order)
    processed,      \* AtomicUsize processed (entries created / entries Ok)
    errors,         \* generate_checksums: AtomicUsize errors
    failed,         \* verify_checksums: AtomicUsize failed
    skipped,        \* verify_checksums: AtomicUsize skipped
    checksum_file,  \* the ChecksumFile built or loaded, None before
    algorithm,      \* verify_checksums: the HashAlgorithm parsed from the manifest
    emitted,        \* the manifests written to --output or stdout by this run
    exit_code,      \* exit status of the process, None while it runs
    run,            \* number of the generation run
    first,          \* the entries of the first generation run's manifest
    hf,             \* hash_file: the call in progress (its file, position, hasher, result)
    full,           \* whether the device of --output runs out of space during the write
    manifest_args   \* the Args of the generation run that wrote the manifest, None before

\* the state of generate_checksums, verify_checksums and the tree
mainvars == <<droot, disk, snapshot, changed, writable, mfile, args, pc, files, work, order, results,
          processed, errors, failed, skipped, checksum_file, algorithm, emitted,
          exit_code, run, first, full, manifest_args>>

vars == <<droot, disk, snapshot, changed, writable, mfile, args, pc, files, work, order, results,
          processed, errors, failed, skipped, checksum_file, algorithm, emitted,
          exit_code, run, first, hf, full, manifest_args>>

\* ------------------------------------------------------------- the tree
File(name, content) ==
    [name |-> name, kind |-> "file", exists |-> TRUE, content |-> content,
     mtime |-> 1, readable |-> TRUE, meta |-> "ok"]
Dir(name) ==
    [name |-> name, kind |-> "dir", exists |-> TRUE, content |-> <<>>,
     mtime |-> 1, readable |-> TRUE, meta |-> "ok"]
NoFile ==
    [name |-> <<>>, kind |-> "file", exists |-> FALSE, content |-> <<>>,
     mtime |-> 0, readable |-> FALSE, meta |-> "err"]

a_txt == <<"a", ".", "t", "x", "t">>
b_tmp == <<"b", ".", "t", "m", "p">>
git == <<".", "g", "i", "t">>
git_config == <<".", "g", "i", "t", "/", "c", "o", "n", "f", "i", "g">>
f_xFE == <<"f", "xFE">>
f_xFF == <<"f", "xFF">>
c_c == <<"c">>

\* two trees, their entries in readdir order
Tree1 == <<File(b_tmp, <<1>>), Dir(git), File(a_txt, <<0>>),
           File(git_config, <<0, 1>>), File(c_c, <<>>)>>
Tree2 == <<File(f_xFF, <<1>>), File(a_txt, <<0>>), File(f_xFE, <<1, 1>>),
           File(c_c, <<>>), File(b_tmp, <<0, 0>>)>>

RECURSIVE TakeFiles(_, _)
\* the longest prefix of a tree holding at most n regular files
TakeFiles(tree, n) ==
    IF tree = <<>> THEN <<>>
    ELSE IF Head(tree).kind = "file"
    THEN (IF n = 0 THEN <<>> ELSE <<Head(tree)>> \o TakeFiles(Tail(tree), n - 1))
    ELSE <<Head(tree)>> \o TakeFiles(Tail(tree), n)

Trees == {TakeFiles(Tree1, MaxFiles), TakeFiles(Tree2, MaxFiles)}

Contents == {<<>>, <<0>>, <<1>>}
Times == 0..MaxTime

\* the roots a run is pointed at
Roots == {<<"d">>, git}

\* --exclude values: well-formed and malformed patterns
Patterns == {<<"*", ".", "t", "m", "p">>,
             <<"*", "*", "/", ".", "g", "i", "t", "/", "*", "*">>,
             <<"a", "*">>,
             <<"[", "a">>,
             <<"a", "*", "*">>}
ExcludeLists == {<<>>} \cup {<<p>> : p \in Patterns}
                \cup {<<<<"*", ".", "t", "m", "p">>,
                        <<"*", "*", "/", ".", "g", "i", "t", "/", "*", "*">>>>,
                      <<<<"[", "a">>, <<"*", ".", "t", "m", "p">>>>}

\* Args (verbose only changes what is printed and is left out)
Args(directory, check, algo, output, exclude, skip_newer, root, threads) ==
    [directory |-> directory, check |-> check, algorithm |-> algo, output |-> output,
     exclude |-> exclude, skip_newer |-> skip_newer, root |-> root, threads |-> threads]

\* the path a directory entry has below the root: exists() and the walk
Lookup(path) ==
    LET hits == {k \in 1..Len(disk) : Join(droot, disk[k].name) = path}
    IN  IF hits = {} THEN NoFile ELSE disk[CHOOSE k \in hits : TRUE]

\* rayon: the size of the global pool
PoolSize(threads) == IF threads > 0 THEN threads ELSE DefaultThreads

Running == {i \in DOMAIN work : work[i] = "running"}

\* ------------------------------------------------- generate_checksums
RECURSIVE WalkFilter(_, _, _)
\* WalkDir::new(directory) filtered to the regular files no pattern excludes:
\* the indices into disk, in walk order
WalkFilter(k, directory, patterns) ==
    IF k > Len(disk) THEN <<>>
    ELSE (IF disk[k].exists /\ disk[k].kind = "file"
             /\ ~should_exclude(Join(directory, disk[k].name), patterns)
          THEN <<k>> ELSE <<>>)
         \o WalkFilter(k + 1, directory, patterns)

\* lines 121-142: compile the patterns, collect the files
GenScan ==
    /\ pc = "gen_start"
    /\ files' = WalkFilter(1, args.directory, CompilePatterns(args.exclude))
    /\ work' = [i \in 1..Len(files') |-> "pending"]
    /\ results' = [i \in 1..Len(files') |-> None]
    /\ order' = <<>>
    /\ processed' = 0
    /\ errors' = 0
    /\ pc' = "gen_par"
    /\ UNCHANGED <<droot, disk, snapshot, changed, writable, mfile, args, failed, skipped,
                   checksum_file, algorithm, emitted, exit_code, run, first, hf, full, manifest_args>>

\* a worker of the pool takes a file
GenTake ==
    /\ pc = "gen_par"
    /\ Cardinality(Running) < PoolSize(args.threads)
    /\ \E i \in DOMAIN work :
         /\ work[i] = "pending"
         /\ work' = [work EXCEPT ![i] = "running"]
    /\ UNCHANGED <<droot, disk, snapshot, changed, writable, mfile, args, pc, files, order, results,
                   processed, errors, failed, skipped, checksum_file, algorithm,
                   emitted, exit_code, run, first, hf, full, manifest_args>>

\* the relative path of the closure of lines 147-153
RelativePath(path, directory) == to_string_lossy(StripPrefix(path, directory))

\* a faulty variant: a file that fails is counted as processed as well
GenProcess_both ==
    /\ pc = "gen_par"
    /\ \E i \in DOMAIN work :
         /\ work[i] = "running"
         /\ LET f == disk[files[i]]
                path == Join(args.directory, f.name)
                r == process_file(f, RelativePath(path, args.directory),
                                  FromAlgorithm(args.algorithm), args.skip_newer)
            IN  IF r.ok
                THEN /\ processed' = processed + 1
                     /\ errors' = errors
                     /\ results' = [results EXCEPT ![i] = Some(r.val)]
                ELSE /\ errors' = errors + 1
                     /\ processed' = processed + 1
                     /\ results' = [results EXCEPT ![i] = None]
         /\ work' = [work EXCEPT ![i] = "done"]
         /\ order' = Append(order, i)
    /\ UNCHANGED <<droot, disk, snapshot, changed, writable, mfile, args, pc, files, failed, skipped,
                   checksum_file, algorithm, emitted, exit_code, run, first, hf, full, manifest_args>>

\* lines 147-169: the closure run by a worker on the file it took
GenProcess ==
    /\ pc = "gen_par"
    /\ \E i \in DOMAIN work :
         /\ work[i] = "running"
         /\ LET f == disk[files[i]]
                path == Join(args.directory, f.name)
                r == process_file(f, RelativePath(path, args.directory),
                                  FromAlgorithm(args.algorithm), args.skip_newer)
            IN  IF r.ok
                THEN /\ processed' = processed + 1
                     /\ errors' = errors
                     /\ results' = [results EXCEPT ![i] = Some(r.val)]
                ELSE /\ errors' = errors + 1
                     /\ processed' = processed
                     /\ results' = [results EXCEPT ![i] = None]
         /\ work' = [work EXCEPT ![i] = "done"]
         /\ order' = Append(order, i)
    /\ UNCHANGED <<droot, disk, snapshot, changed, writable, mfile, args, pc, files, failed, skipped,
                   checksum_file, algorithm, emitted, exit_code, run, first, hf, full, manifest_args>>

RECURSIVE Gather(_, _)
\* the Some results of the items listed in ord, in that order
Gather(res, ord) ==
    IF ord = <<>> THEN <<>>
    ELSE res[Head(ord)] \o Gather(res, Tail(ord))

\* a faulty variant: the results are pushed to a shared vector as the workers finish
Collect_finished(res, finished) == Gather(res, finished)

\* .collect() of the parallel iterator: the results in item order, whatever
\* order the workers finished in
Collect(res, finished) == Gather(res, [i \in 1..Len(res) |-> i])

\* lines 179-183
ChecksumFile(algo, es) ==
    [version |-> <<"1", ".", "0">>, algorithm |-> AlgorithmName(algo), entries |-> es]

\* lines 172-200: collect, sort, build the manifest, write it, return.
\* fs::write (line 189) is File::create followed by write_all: it fails
\* leaving the file as it was when the file cannot be created, and fails
\* leaving a created, truncated file with a prefix of the text when the
\* device fills up during write_all
GenFinish ==
    /\ pc = "gen_par"
    /\ \A i \in DOMAIN work : work[i] = "done"
    /\ LET entries == SortByPath(Collect(results, order))
           cf == ChecksumFile(args.algorithm, entries)
           output_json == Serialize(cf)
       IN  /\ checksum_file' = Some(cf)
           /\ IF IsSome(args.output) /\ ~writable
              THEN /\ pc' = "gen_aborted"
                   /\ exit_code' = Some(1)
                   /\ UNCHANGED <<mfile, emitted, changed, manifest_args>>
              ELSE IF IsSome(args.output) /\ full
              THEN /\ pc' = "gen_aborted"
                   /\ exit_code' = Some(1)
                   /\ mfile' = [status |-> "truncated", json |-> <<>>]
                   /\ manifest_args' = Some(args)
                   /\ UNCHANGED <<emitted, changed>>
              ELSE /\ pc' = "gen_done"
                   /\ exit_code' = Some(0)
                   /\ emitted' = Append(emitted, output_json)
                   /\ mfile' = [status |-> "ok", json |-> output_json]
                   /\ manifest_args' = Some(args)
                   /\ changed' = {}
    /\ snapshot' = disk
    /\ UNCHANGED <<droot, disk, writable, args, files, work, order, results, processed,
                   errors, failed, skipped, algorithm, run, first, hf, full>>

\* the same tree is generated again, with another pool size
GenAgain ==
    /\ pc = "gen_done"
    /\ run < MaxRuns
    /\ \E t \in 0..MaxThreads :
         /\ t # args.threads
         /\ args' = [args EXCEPT !.threads = t]
    /\ run' = run + 1
    /\ first' = IF run = 1 THEN Some(Unwrap(checksum_file).entries) ELSE first
    /\ pc' = "gen_start"
    /\ files' = <<>>
    /\ work' = <<>>
    /\ order' = <<>>
    /\ results' = <<>>
    /\ processed' = 0
    /\ errors' = 0
    /\ checksum_file' = None
    /\ emitted' = <<>>
    /\ exit_code' = None
    /\ UNCHANGED <<droot, disk, snapshot, changed, writable, mfile, failed, skipped, algorithm, hf, full, manifest_args>>

\* a tree with the faults of a run: the entries in unreadable cannot be
\* opened, those in nometa have no readable metadata
Faulty(tree, unreadable, nometa, kind) ==
    [k \in 1..Len(tree) |->
        [tree[k] EXCEPT !.readable = (k \notin unreadable),
                        !.meta = IF k \in nometa THEN kind ELSE "ok"]]

InitCommon ==
    /\ changed = {}
    /\ mfile = [status |-> "missing", json |-> <<>>]
    /\ files = <<>>
    /\ work = <<>>
    /\ order = <<>>
    /\ results = <<>>
    /\ processed = 0
    /\ errors = 0
    /\ failed = 0
    /\ skipped = 0
    /\ checksum_file = None
    /\ algorithm = "Sha256"
    /\ emitted = <<>>
    /\ exit_code = None
    /\ run = 1
    /\ first = None
    /\ manifest_args = None

\* -------------------------------------------------- verify_checksums
\* a faulty variant: a checksum file that cannot be read counts as one damaged entry
VerLoad_lenient ==
    /\ pc = "ver_start"
    /\ IF mfile.status # "ok"
       THEN /\ pc' = "ver_done"
            /\ exit_code' = Some(1)
            /\ failed' = 1
            /\ UNCHANGED <<checksum_file, algorithm, work, results, processed, skipped>>
       ELSE /\ checksum_file' = Some(Deserialize(mfile.json))
            /\ algorithm' = ParseAlgorithm(mfile.json.algorithm)
            /\ work' = [i \in 1..Len(mfile.json.entries) |-> "pending"]
            /\ results' = [i \in 1..Len(mfile.json.entries) |-> None]
            /\ processed' = 0
            /\ failed' = 0
            /\ skipped' = 0
            /\ pc' = "ver_par"
            /\ UNCHANGED exit_code
    /\ UNCHANGED <<droot, disk, snapshot, changed, writable, mfile, args, files, order,
                   errors, emitted, run, first, hf, full, manifest_args>>

\* lines 234-259: open and parse the checksum file, set up the counters
VerLoad ==
    /\ pc = "ver_start"
    /\ IF mfile.status # "ok"
       THEN /\ pc' = "ver_aborted"
            /\ exit_code' = Some(1)
            /\ UNCHANGED <<checksum_file, algorithm, work, results, processed, failed,
                           skipped>>
       ELSE /\ checksum_file' = Some(Deserialize(mfile.json))
            /\ algorithm' = ParseAlgorithm(mfile.json.algorithm)
            /\ work' = [i \in 1..Len(mfile.json.entries) |-> "pending"]
            /\ results' = [i \in 1..Len(mfile.json.entries) |-> None]
            /\ processed' = 0
            /\ failed' = 0
            /\ skipped' = 0
            /\ pc' = "ver_par"
            /\ UNCHANGED exit_code
    /\ UNCHANGED <<droot, disk, snapshot, changed, writable, mfile, args, files, order, errors,
                   emitted, run, first, hf, full, manifest_args>>

\* a worker of the pool takes a manifest entry
VerTake ==
    /\ pc = "ver_par"
    /\ Cardinality(Running) < PoolSize(args.threads)
    /\ \E i \in DOMAIN work :
         /\ work[i] = "pending"
         /\ work' = [work EXCEPT ![i] = "running"]
    /\ UNCHANGED <<droot, disk, snapshot, changed, writable, mfile, args, pc, files, order, results,
                   processed, errors, failed, skipped, checksum_file, algorithm,
                   emitted, exit_code, run, first, hf, full, manifest_args>>

\* line 242
RootDir(a) == IF IsSome(a.root) THEN Unwrap(a.root) ELSE a.directory

\* a faulty variant: the counters are read and written back without
\* atomicity, an update is lost while another worker is running
VerCheck_lost ==
    /\ pc = "ver_par"
    /\ \E i \in DOMAIN work :
         /\ work[i] = "running"
         /\ LET entry == Unwrap(checksum_file).entries[i]
                full_path == Join(RootDir(args), entry.path)
                result == verify_single_file(Lookup(full_path), entry, algorithm,
                                             args.skip_newer)
                alone == Cardinality(Running) = 1
            IN  /\ processed' = IF result.kind = "Ok" /\ alone THEN processed + 1 ELSE processed
                /\ failed' = IF result.kind = "Failed" /\ alone THEN failed + 1 ELSE failed
                /\ skipped' = IF result.kind = "Skipped" /\ alone THEN skipped + 1 ELSE skipped
                /\ results' = [results EXCEPT ![i] = Some(result)]
         /\ work' = [work EXCEPT ![i] = "done"]
    /\ UNCHANGED <<droot, disk, snapshot, changed, writable, mfile, args, pc, files, order, errors,
                   checksum_file, algorithm, emitted, exit_code, run, first, hf, full, manifest_args>>

\* lines 265-291: the closure run by a worker on the entry it took
VerCheck ==
    /\ pc = "ver_par"
    /\ \E i \in DOMAIN work :
         /\ work[i] = "running"
         /\ LET entry == Unwrap(checksum_file).entries[i]
                full_path == Join(RootDir(args), entry.path)
                result == verify_single_file(Lookup(full_path), entry, algorithm,
                                             args.skip_newer)
            IN  /\ processed' = IF result.kind = "Ok" THEN processed + 1 ELSE processed
                /\ failed' = IF result.kind = "Failed" THEN failed + 1 ELSE failed
                /\ skipped' = IF result.kind = "Skipped" THEN skipped + 1 ELSE skipped
                /\ results' = [results EXCEPT ![i] = Some(result)]
         /\ work' = [work EXCEPT ![i] = "done"]
    /\ UNCHANGED <<droot, disk, snapshot, changed, writable, mfile, args, pc, files, order, errors,
                   checksum_file, algorithm, emitted, exit_code, run, first, hf, full, manifest_args>>

\* a faulty variant: a single failure is tolerated
ExitStatus_tolerant(fail_count) == IF fail_count > 1 THEN 1 ELSE 0

\* lines 307-311
ExitStatus(fail_count) == IF fail_count > 0 THEN 1 ELSE 0

\* lines 294-311: the summary and the exit status
VerSummary ==
    /\ pc = "ver_par"
    /\ \A i \in DOMAIN work : work[i] = "done"
    /\ exit_code' = Some(ExitStatus(failed))
    /\ pc' = "ver_done"
    /\ UNCHANGED <<droot, disk, snapshot, changed, writable, mfile, args, files, work, order, results,
                   processed, errors, failed, skipped, checksum_file, algorithm,
                   emitted, run, first, hf, full, manifest_args>>

\* ----------------------------------- between generation and verification
CanChange(k) ==
    /\ pc = "gen_done"
    /\ Cardinality(changed) < MaxChanges
    /\ k \notin changed
    /\ disk[k].kind = "file"

\* the bytes of a file are rewritten; its modification time stays or grows
EnvWrite ==
    \E k \in DOMAIN disk, c \in Contents, t \in Times :
        /\ CanChange(k)
        /\ c # disk[k].content
        /\ t >= disk[k].mtime
        /\ disk' = [disk EXCEPT ![k].content = c, ![k].mtime = t]
        /\ changed' = changed \cup {k}
        /\ UNCHANGED <<droot, snapshot, writable, mfile, args, pc, files, work, order, results,
                       processed, errors, failed, skipped, checksum_file, algorithm,
                       emitted, exit_code, run, first, hf, full, manifest_args>>

\* the modification time of a file is set, its bytes stay
EnvTouch ==
    \E k \in DOMAIN disk, t \in Times :
        /\ CanChange(k)
        /\ t # disk[k].mtime
        /\ disk' = [disk EXCEPT ![k].mtime = t]
        /\ changed' = changed \cup {k}
        /\ UNCHANGED <<droot, snapshot, writable, mfile, args, pc, files, work, order, results,
                       processed, errors, failed, skipped, checksum_file, algorithm,
                       emitted, exit_code, run, first, hf, full, manifest_args>>

\* a file is removed
EnvRemove ==
    \E k \in DOMAIN disk :
        /\ CanChange(k)
        /\ disk' = [disk EXCEPT ![k].exists = FALSE]
        /\ changed' = changed \cup {k}
        /\ UNCHANGED <<droot, snapshot, writable, mfile, args, pc, files, work, order, results,
                       processed, errors, failed, skipped, checksum_file, algorithm,
                       emitted, exit_code, run, first, hf, full, manifest_args>>

\* a file loses its read permission, or its metadata can no longer be read
EnvProtect ==
    \E k \in DOMAIN disk, how \in {"read", "err", "lost", "nomtime"} :
        /\ CanChange(k)
        /\ disk[k].readable /\ disk[k].meta = "ok"
        /\ disk' = IF how = "read" THEN [disk EXCEPT ![k].readable = FALSE]
                   ELSE [disk EXCEPT ![k].meta = how]
        /\ changed' = changed \cup {k}
        /\ UNCHANGED <<droot, snapshot, writable, mfile, args, pc, files, work, order, results,
                       processed, errors, failed, skipped, checksum_file, algorithm,
                       emitted, exit_code, run, first, hf, full, manifest_args>>

\* the checksum file is lost or damaged
EnvManifest ==
    /\ pc = "gen_done"
    /\ changed = {}
    /\ mfile.status = "ok"
    /\ \E st \in {"missing", "garbage"} : mfile' = [status |-> st, json |-> <<>>]
    /\ UNCHANGED <<droot, disk, snapshot, changed, writable, args, pc, files, work, order, results,
                   processed, errors, failed, skipped, checksum_file, algorithm,
                   emitted, exit_code, run, first, hf, full, manifest_args>>

\* algorithm names no arm of the match in verify_checksums accepts
UnknownAlgorithms == {<<"s", "h", "a", "1">>, <<"S", "H", "A", "2", "5", "6">>}

\* the algorithm name in the checksum file is edited (index 0 of changed
\* stands for the checksum file)
EnvAlgorithm ==
    /\ pc = "gen_done"
    /\ mfile.status = "ok"
    /\ Cardinality(changed) < MaxChanges
    /\ 0 \notin changed
    /\ \E name \in UnknownAlgorithms : mfile' = [mfile EXCEPT !.json.algorithm = name]
    /\ changed' = changed \cup {0}
    /\ UNCHANGED <<droot, disk, snapshot, writable, args, pc, files, work, order, results,
                   processed, errors, failed, skipped, checksum_file, algorithm,
                   emitted, exit_code, run, first, hf, full, manifest_args>>

\* main with --check: the tree is verified against the checksum file
StartVerifyWith(threads) ==
    /\ pc = "gen_done"
    /\ \E sn \in BOOLEAN, byroot \in BOOLEAN, t \in threads :
         args' = IF byroot
                 THEN Args(<<"w">>, Some(<<"o">>), args.algorithm, None, <<>>, sn,
                           Some(droot), t)
                 ELSE Args(droot, Some(<<"o">>), args.algorithm, None, <<>>, sn, None, t)
    /\ pc' = "ver_start"
    /\ files' = <<>>
    /\ work' = <<>>
    /\ order' = <<>>
    /\ results' = <<>>
    /\ processed' = 0
    /\ errors' = 0
    /\ checksum_file' = None
    /\ emitted' = <<>>
    /\ exit_code' = None
    /\ UNCHANGED <<droot, disk, snapshot, changed, writable, mfile, failed, skipped, algorithm,
                   run, first, hf, full, manifest_args>>

\* a verification run with one worker
StartVerify == StartVerifyWith({1})

\* a verification run with any pool size (--threads 0 is the default pool)
StartVerifyPool == StartVerifyWith(0..MaxThreads)

\* ------------------------------------------------- hash_file, step by step
\* hf, the call of hash_file in progress:
\*   pc         "idle" (no call), "open", "loop" or "done"
\*   algorithm  the HashAlgorithm
\*   content    the bytes of the file
\*   openable   whether File::open succeeds
\*   fail_at    the number of the file.read call that fails, 0 for none
\*   reads      file.read calls made
\*   pos        bytes read so far
\*   hasher     the state of the hasher
\*   chunks     the slices passed to update, in order
\*   finalized  calls of finalize / compute / digest
\*   result     None while running, then Some(Ok(digest)) or Some(Err)
HashIdle ==
    [pc |-> "idle", algorithm |-> "Sha256", content |-> <<>>, openable |-> TRUE,
     fail_at |-> 0, reads |-> 0, pos |-> 0, hasher |-> 0, chunks |-> <<>>,
     finalized |-> 0, result |-> None]

HashCall(algo, content, openable, fail_at) ==
    [HashIdle EXCEPT !.pc = "open", !.algorithm = algo, !.content = content,
                     !.openable = openable, !.fail_at = fail_at]

\* byte values and the file contents built from them
HashBytes == {0, 1, 255}
HashContents == UNION {[1..n -> HashBytes] : n \in 0..MaxContent}

\* lines 20-25 (and 36, 47, 58, 69): File::open, the buffer, the hasher
HashOpen ==
    /\ hf.pc = "open"
    /\ hf' = IF hf.openable
             THEN [hf EXCEPT !.pc = "loop", !.hasher = HasherNew(hf.algorithm)]
             ELSE [hf EXCEPT !.pc = "done", !.result = Some(Err)]
    /\ UNCHANGED mainvars

\* a faulty variant: the whole buffer prefix is fed, one stale byte beyond bytes_read
HashRead_stale ==
    /\ hf.pc = "loop"
    /\ hf.reads + 1 # hf.fail_at
    /\ \E n \in 1..Min(Len(hf.content) - hf.pos, BufferSize) :
         LET chunk == SubSeq(hf.content, hf.pos + 1, hf.pos + n) \o <<0>>
         IN  hf' = [hf EXCEPT !.reads = @ + 1, !.pos = @ + n,
                              !.hasher = HasherUpdate(hf.algorithm, @, chunk),
                              !.chunks = Append(@, chunk)]
    /\ UNCHANGED mainvars

\* lines 27-31: a read that returns bytes_read > 0 (at most the buffer, at
\* most what is left of the file, possibly less), and the update with them
HashRead ==
    /\ hf.pc = "loop"
    /\ hf.reads + 1 # hf.fail_at
    /\ \E n \in 1..Min(Len(hf.content) - hf.pos, BufferSize) :
         LET chunk == SubSeq(hf.content, hf.pos + 1, hf.pos + n)
         IN  hf' = [hf EXCEPT !.reads = @ + 1, !.pos = @ + n,
                              !.hasher = HasherUpdate(hf.algorithm, @, chunk),
                              !.chunks = Append(@, chunk)]
    /\ UNCHANGED mainvars

\* lines 27-33: the read at the end of the file returns 0, the loop breaks,
\* the digest is finalized and formatted
HashEof ==
    /\ hf.pc = "loop"
    /\ hf.reads + 1 # hf.fail_at
    /\ hf.pos = Len(hf.content)
    /\ hf' = [hf EXCEPT !.reads = @ + 1, !.finalized = @ + 1, !.pc = "done",
                        !.result = Some(Ok(HasherFinalize(hf.algorithm, hf.hasher)))]
    /\ UNCHANGED mainvars

\* line 27: file.read(&mut buffer)? returns the error
HashFail ==
    /\ hf.pc = "loop"
    /\ hf.reads + 1 = hf.fail_at
    /\ hf' = [hf EXCEPT !.reads = @ + 1, !.pc = "done", !.result = Some(Err)]
    /\ UNCHANGED mainvars

\* calls of hash_file: any algorithm, content and I/O fault
InitHash ==
    /\ InitCommon
    /\ droot = <<"d">>
    /\ disk = <<>>
    /\ args = Args(droot, None, "Sha256", None, <<>>, FALSE, None, 1)
    /\ writable = TRUE
    /\ pc = "hash_file"
    /\ snapshot = disk
    /\ \E algo \in Algorithms, content \in HashContents, openable \in BOOLEAN,
          fail_at \in 0..(MaxContent + 1) :
         /\ openable \/ fail_at = 0
         /\ fail_at <= Len(content) + 1
         /\ hf = HashCall(algo, content, openable, fail_at)
    /\ full = FALSE

NextHash == HashOpen \/ HashRead \/ HashEof \/ HashFail

SpecHash == InitHash /\ [][NextHash]_vars

\* generation runs: any faults, output and pool size, twice over the same tree
InitGen ==
    /\ InitCommon
    /\ droot = <<"d">>
    /\ \E tree \in Trees, bad \in SUBSET (1..MaxFiles), kind \in {"read", "err", "nomtime"} :
         /\ kind = "read" \/ bad # {}
         /\ disk = Faulty(tree, IF kind = "read" THEN bad ELSE {},
                          IF kind = "read" THEN {} ELSE bad, kind)
    /\ \E algo \in {"Sha256", "Crc32"}, out \in {None, Some(<<"o">>)},
          sn \in BOOLEAN, t \in 0..MaxThreads :
         args = Args(droot, None, algo, out, <<>>, sn, None, t)
    /\ writable \in IF IsSome(args.output) THEN BOOLEAN ELSE {TRUE}
    /\ pc = "gen_start"
    /\ snapshot = disk
    /\ hf = HashIdle
    /\ full = FALSE

NextGen == GenScan \/ GenTake \/ GenProcess \/ GenFinish \/ GenAgain

SpecGen == InitGen /\ [][NextGen]_vars

\* generation runs to an output file on a device that may fill up
InitOut ==
    /\ InitCommon
    /\ droot = <<"d">>
    /\ \E tree \in Trees, bad \in SUBSET (1..MaxFiles) :
         disk = Faulty(tree, bad, {}, "read")
    /\ \E algo \in {"Sha256", "Md5"}, sn \in BOOLEAN, t \in 0..MaxThreads :
         args = Args(droot, None, algo, Some(<<"o">>), <<>>, sn, None, t)
    /\ writable = TRUE
    /\ pc = "gen_start"
    /\ snapshot = disk
    /\ hf = HashIdle
    /\ full \in BOOLEAN

NextOut == GenScan \/ GenTake \/ GenProcess \/ GenFinish \/ GenAgain

SpecOut == InitOut /\ [][NextOut]_vars

\* generation runs with exclude patterns, over trees at several roots
InitScan ==
    /\ InitCommon
    /\ droot \in Roots
    /\ \E tree \in Trees, bad \in {{}} \cup {{k} : k \in 1..MaxFiles} :
         disk = Faulty(tree, bad, {}, "ok")
    /\ \E ex \in ExcludeLists, algo \in {"Sha256", "Xxh3"} :
         args = Args(droot, None, algo, None, ex, FALSE, None, MaxThreads)
    /\ writable = TRUE
    /\ pc = "gen_start"
    /\ snapshot = disk
    /\ hf = HashIdle
    /\ full = FALSE

NextScan == GenScan \/ GenTake \/ GenProcess \/ GenFinish

SpecScan == InitScan /\ [][NextScan]_vars

\* a generation run, changes to the tree, and a verification run
Init ==
    /\ InitCommon
    /\ droot = <<"d">>
    /\ \E tree \in Trees, bad \in {{}} \cup {{k} : k \in 1..MaxFiles} :
         disk = Faulty(tree, bad, {}, "ok")
    /\ \E algo \in Algorithms, sn \in BOOLEAN :
         args = Args(droot, None, algo, Some(<<"o">>), <<>>, sn, None, 1)
    /\ writable = TRUE
    /\ pc = "gen_start"
    /\ snapshot = disk
    /\ hf = HashIdle
    /\ full = FALSE

Next ==
    \/ GenScan \/ GenTake \/ GenProcess \/ GenFinish
    \/ EnvWrite \/ EnvTouch \/ EnvRemove \/ EnvProtect \/ EnvManifest \/ EnvAlgorithm
    \/ StartVerify \/ VerLoad \/ VerTake \/ VerCheck \/ VerSummary

Spec == Init /\ [][Next]_vars

\* a generation run on the default pool, changes to the tree, and a
\* verification run on a pool of any size
InitVer ==
    /\ InitCommon
    /\ droot = <<"d">>
    /\ \E tree \in Trees, bad \in {{}} \cup {{k} : k \in 1..MaxFiles} :
         disk = Faulty(tree, bad, {}, "ok")
    /\ \E algo \in {"Sha256", "Crc32"}, sn \in BOOLEAN :
         args = Args(droot, None, algo, Some(<<"o">>), <<>>, sn, None, 0)
    /\ writable = TRUE
    /\ pc = "gen_start"
    /\ snapshot = disk
    /\ hf = HashIdle
    /\ full = FALSE

NextVer ==
    \/ GenScan \/ GenTake \/ GenProcess \/ GenFinish
    \/ EnvWrite \/ EnvTouch \/ EnvRemove \/ EnvProtect
    \/ StartVerifyPool \/ VerLoad \/ VerTake \/ VerCheck \/ VerSummary

SpecVer == InitVer /\ [][NextVer]_vars

\* ------------------------------------------------------------ properties
\* the entries of the manifest built (generation) or loaded (verification)
Entries == IF IsSome(checksum_file) THEN Unwrap(checksum_file).entries ELSE <<>>

Generated == pc \in {"gen_done", "gen_aborted"}
Verifying == pc \in {"ver_par", "ver_done"}

\* the manifest entries a worker has classified
Classified == IF Verifying THEN {i \in DOMAIN work : work[i] = "done"} ELSE {}
Result(i) == Unwrap(results[i])

\* the directory entry the path of manifest entry i resolves to
Target(i) == Lookup(Join(RootDir(args), Entries[i].path))
TargetIndex(i) ==
    {k \in DOMAIN disk : Join(droot, disk[k].name) = Join(RootDir(args), Entries[i].path)}

\* the digest of a byte sequence
HashOf(content, algo) ==
    HasherFinalize(algo, HasherUpdate(algo, HasherNew(algo), content))

\* the bytes of the target of entry i were rewritten after generation
Mutated(i) ==
    \E k \in TargetIndex(i) :
        /\ disk[k].exists /\ disk[k].readable
        /\ disk[k].content # snapshot[k].content
        /\ HashOf(disk[k].content, algorithm) # Entries[i].hash

\* the result of entry i is the hash mismatch, with the recorded and the
\* recomputed digest in its message, and no other entry has its path
IsMismatch(i) ==
    /\ Result(i) = VFailed(<<"Hash mismatch: expected ", Entries[i].hash, ", got ",
                            HashOf(Target(i).content, algorithm)>>)
    /\ Entries[i].hash # HashOf(Target(i).content, algorithm)
    /\ \A j \in DOMAIN Entries : Entries[j].path = Entries[i].path => j = i

\* the target of entry i is newer than the entry records, and a run with
\* --skip-newer sees that
NewerOnTarget(i) ==
    /\ args.skip_newer
    /\ IsSome(Entries[i].modified)
    /\ Target(i).exists
    /\ Target(i).meta = "ok"
    /\ Target(i).mtime > Unwrap(Entries[i].modified)

\* C1: round trip. A verification run over the tree the manifest was
\* generated from, unchanged since, ends with no Failed and no Skipped
\* entry: every entry is Ok.
C1_RoundTrip ==
    (pc = "ver_done" /\ changed = {})
        => (failed = 0 /\ skipped = 0 /\ processed = Len(Entries)
            /\ \A i \in DOMAIN Entries : Result(i).kind = "Ok")

\* C1, for trees whose file names are all valid UTF-8: the round trip holds.
C1_RoundTripUtf8 ==
    (pc = "ver_done" /\ changed = {}
     /\ \A k \in DOMAIN disk : IsSome(to_str(disk[k].name)))
        => (failed = 0 /\ skipped = 0 /\ processed = Len(Entries))

\* C2 as claimed: whenever the bytes of an entry's target were rewritten
\* after generation, the entry is classified Failed with the hash mismatch
\* message holding both digests, once for its path.
C2_TamperAlwaysFailed ==
    \A i \in Classified : Mutated(i) => IsMismatch(i)

\* C2 as amended: whenever the bytes of an entry's target were rewritten
\* after generation and the skip-newer policy does not apply to the entry,
\* the entry is classified Failed with the hash mismatch message holding both
\* digests, once for its path; when the policy applies it is Skipped.
C2_TamperDetected ==
    \A i \in Classified :
        Mutated(i) => IF NewerOnTarget(i) THEN Result(i).kind = "Skipped"
                      ELSE IsMismatch(i)

C2_Witness ==
    \E i \in Classified : Mutated(i) /\ ~NewerOnTarget(i) /\ IsMismatch(i)

\* the entries classified Failed
FailedEntries == {i \in Classified : Result(i).kind = "Failed"}

\* C3: a verification run that reaches its summary exits with status 1 if
\* and only if at least one entry was classified Failed, and with status 0
\* if none was, whatever the numbers of Ok and Skipped entries.
C3_ExitIffFailed ==
    pc = "ver_done"
        => /\ exit_code = Some(1) <=> Cardinality(FailedEntries) >= 1
           /\ exit_code = Some(0) <=> Cardinality(FailedEntries) = 0

C3_Witness ==
    /\ pc = "ver_done"
    /\ exit_code = Some(1)
    /\ Cardinality(FailedEntries) = 1
    /\ processed >= 1

\* C4: with --skip-newer, an entry that records a modification time T and
\* whose target has a modification time greater than T is classified
\* Skipped, also when the bytes of the target differ.
C4_SkipNewer ==
    \A i \in Classified : NewerOnTarget(i) => Result(i).kind = "Skipped"

C4_Witness ==
    \E i \in Classified :
        /\ NewerOnTarget(i)
        /\ Mutated(i)
        /\ Result(i).kind = "Skipped"

\* C5: a second generation run over the unchanged tree, with another pool
\* size and whatever order its workers finish in, yields the entry list of
\* the first run.
C5_Determinism ==
    (run >= 2 /\ pc = "gen_done") => Entries = Unwrap(first)

C5_Witness ==
    /\ run >= 2
    /\ pc = "gen_done"
    /\ Len(Entries) >= 2
    /\ order # [i \in 1..Len(order) |-> i]

\* C6: the entries of a generated manifest are sorted ascending by path
\* and no two entries have the same path.
C6_SortedNoDuplicates ==
    Generated =>
        \A i \in 1..(Len(Entries) - 1) : StrCmp(Entries[i].path, Entries[i + 1].path) < 0

\* C6, without the uniqueness: the entries are in ascending order of path.
C6_Sorted ==
    Generated =>
        \A i \in 1..(Len(Entries) - 1) : StrCmp(Entries[i].path, Entries[i + 1].path) <= 0

\* the scanned files whose digest or metadata cannot be read
FailsToProcess(k) == ~disk[k].readable \/ (args.skip_newer /\ disk[k].meta # "ok")
FailingFiles == {i \in DOMAIN files : FailsToProcess(files[i])}

\* the entry a file that can be processed gets
ExpectedEntry(k) ==
    ChecksumEntry(to_string_lossy(disk[k].name), HashOf(disk[k].content, args.algorithm),
                  IF args.skip_newer THEN Some(disk[k].mtime) ELSE None,
                  IF args.skip_newer THEN Some(Len(disk[k].content)) ELSE None)

\* C7: when k of the N scanned files cannot be processed, the manifest holds
\* N - k entries, one for every file that could, the error counter is k, and
\* the run ends with status 0 (unless the manifest itself cannot be written).
C7_PartialFailure ==
    Generated =>
        /\ Len(Entries) = Len(files) - Cardinality(FailingFiles)
        /\ errors = Cardinality(FailingFiles)
        /\ processed = Len(files) - Cardinality(FailingFiles)
        /\ \A i \in DOMAIN files \ FailingFiles :
              \E j \in DOMAIN Entries : Entries[j] = ExpectedEntry(files[i])
        /\ exit_code = Some(0) \/ (IsSome(args.output) /\ ~writable)

C7_Witness ==
    /\ pc = "gen_done"
    /\ exit_code = Some(0)
    /\ Cardinality(FailingFiles) = 1
    /\ Len(Entries) = Len(files) - 1
    /\ Len(Entries) >= 1

\* C8: an entry is classified Ok only if its target exists, the digest of
\* the target under the manifest's algorithm equals the recorded one and,
\* where --skip-newer compared the times, the target is not newer.
C8_OkImpliesMatch ==
    \A i \in Classified :
        Result(i).kind = "Ok"
            => /\ Target(i).exists
               /\ Target(i).readable
               /\ algorithm = ParseAlgorithm(mfile.json.algorithm)
               /\ HashOf(Target(i).content, algorithm) = Entries[i].hash
               /\ ~NewerOnTarget(i)

C8_Witness ==
    \E i \in Classified :
        /\ Result(i).kind = "Ok"
        /\ args.skip_newer
        /\ IsSome(Entries[i].modified)

\* the regular files of the tree that can be read
Readable == {k \in DOMAIN disk : disk[k].kind = "file" /\ disk[k].exists /\ disk[k].readable}

\* file k has its entry in the manifest
InManifest(k) ==
    \E j \in DOMAIN Entries :
        /\ Entries[j].path = to_string_lossy(disk[k].name)
        /\ Entries[j].hash = HashOf(disk[k].content, args.algorithm)

HasPath(p) == \E j \in DOMAIN Entries : Entries[j].path = p

p_tmp == <<"*", ".", "t", "m", "p">>
p_git == <<"*", "*", "/", ".", "g", "i", "t", "/", "*", "*">>

\* the tree holds a.txt, b.tmp and .git/config, all readable, and the run
\* excludes *.tmp and **/.git/**
ExampleRun ==
    /\ {disk[k].name : k \in Readable} = {a_txt, b_tmp, git_config}
    /\ {disk[k].name : k \in DOMAIN disk} \subseteq {a_txt, b_tmp, git_config, git}
    /\ args.exclude = <<p_tmp, p_git>>

SomePatternMatches(p) ==
    \E n \in DOMAIN args.exclude :
        /\ PatternNew(args.exclude[n]).ok
        /\ IsSome(to_str(p))
        /\ PatternMatches(PatternNew(args.exclude[n]).tokens, Unwrap(to_str(p)))

C10_SetupErrorsFatal ==
    (pc \in {"ver_par", "ver_done", "ver_aborted"} /\ mfile.status # "ok")
        => /\ pc = "ver_aborted"
           /\ exit_code = Some(1)
           /\ checksum_file = None
           /\ results = <<>>
           /\ work = <<>>
           /\ processed = 0 /\ failed = 0 /\ skipped = 0

C10_Witness ==
    /\ pc = "ver_aborted"
    /\ mfile.status = "garbage"
    /\ exit_code = Some(1)

\* the names the match in verify_checksums knows
KnownNames == {AlgorithmName(a) : a \in Algorithms}

\* the checksum file names an algorithm the match does not know
UnknownName == mfile.status = "ok" /\ mfile.json.algorithm \notin KnownNames

\* what entry i is classified as when its digest is recomputed with SHA-256
Sha256Outcome(i) ==
    IF ~path_exists(Target(i)) \/ ~Target(i).readable THEN "Failed"
    ELSE IF NewerOnTarget(i) THEN "Skipped"
    ELSE IF args.skip_newer /\ IsSome(Entries[i].modified) /\ Target(i).meta = "lost"
    THEN "Failed"
    ELSE IF HashOf(Target(i).content, "Sha256") = Entries[i].hash THEN "Ok"
    ELSE "Failed"

\* C11: a verification run over a checksum file whose algorithm name is
\* none of sha256, md5, crc32, blake2, xxh3 does not abort: it computes
\* SHA-256 digests, and every entry is classified by its SHA-256 digest.
C11_UnknownAlgorithmFallback ==
    (pc \in {"ver_par", "ver_done", "ver_aborted"} /\ UnknownName)
        => /\ pc # "ver_aborted"
           /\ algorithm = "Sha256"
           /\ DOMAIN work = DOMAIN Entries
           /\ \A i \in Classified : Result(i).kind = Sha256Outcome(i)
           /\ pc = "ver_done" => Classified = DOMAIN Entries

C11_Witness ==
    /\ pc = "ver_done"
    /\ UnknownName
    /\ \E i \in Classified : Result(i).kind = "Ok"
    /\ \E i \in Classified : Result(i).kind = "Failed"

\* the hex width of an algorithm's digest
Width(algo) ==
    CASE algo \in {"Sha256", "Blake2"} -> 64
      [] algo = "Md5" -> 32
      [] algo = "Crc32" -> 8
      [] algo = "Xxh3" -> 16

IsHex(str) == \A k \in DOMAIN str : \E d \in DOMAIN HexDigits : HexDigits[d] = str[k]

\* C12: every digest hash_file returns, for every algorithm and content, is
\* a string of lower-case hex digits of exactly the algorithm's width: 64 for
\* SHA-256 and BLAKE2s, 32 for MD5, 8 for CRC32, 16 for XXH3.
C12_DigestWidth ==
    /\ (hf.pc = "done" /\ IsSome(hf.result) /\ Unwrap(hf.result).ok)
          => /\ Len(Unwrap(hf.result).val) = Width(hf.algorithm)
             /\ IsHex(Unwrap(hf.result).val)
    /\ \A algo \in Algorithms :
          Len(hash_file(File(a_txt, hf.content), algo).val) = Width(algo)

\* a CRC32 digest that begins with a zero digit
C12_Witness ==
    /\ hf.pc = "done"
    /\ hf.algorithm = "Crc32"
    /\ hf.content # <<>>
    /\ IsSome(hf.result)
    /\ Unwrap(hf.result).ok
    /\ Unwrap(hf.result).val[1] = "0"
    /\ Len(Unwrap(hf.result).val) = 8

\* C12, in a manifest: every entry's hash has the width of the algorithm the
\* manifest names.
C12_ManifestWidth ==
    Generated =>
        \A i \in DOMAIN Entries : Len(Entries[i].hash) = Width(args.algorithm)

\* entry e pairs its metadata as the run asked: both modified and size when
\* --skip-newer was given, none of them when it was not
Paired(e) ==
    /\ IsSome(e.modified) <=> IsSome(e.size)
    /\ IsSome(e.modified) <=> args.skip_newer

\* C13: in every entry process_file creates in a generation run, and in
\* the manifest built and written from them, modified and size are both
\* present or both absent, and present exactly when the run asked for
\* metadata.
C13_MetadataPairing ==
    (pc \in {"gen_par", "gen_done", "gen_aborted"})
        => /\ \A i \in DOMAIN results :
                IsSome(results[i])
                    => /\ Paired(Unwrap(results[i]))
                       /\ args.skip_newer
                            => /\ Unwrap(results[i]).modified = Some(disk[files[i]].mtime)
                               /\ Unwrap(results[i]).size = Some(Len(disk[files[i]].content))
           /\ \A j \in DOMAIN Entries : Paired(Entries[j])
           /\ \A n \in DOMAIN emitted : \A j \in DOMAIN emitted[n].entries :
                /\ "modified" \in DOMAIN emitted[n].entries[j] <=> args.skip_newer
                /\ "size" \in DOMAIN emitted[n].entries[j] <=> args.skip_newer

C13_Witness ==
    /\ pc = "gen_done"
    /\ args.skip_newer
    /\ Len(Entries) >= 2
    /\ IsSome(Entries[1].modified)
    /\ IsSome(Entries[1].size)
    /\ Len(emitted) = 1

\* --skip-newer reads the metadata of the target of entry i, which exists,
\* and the read of the metadata or of the modification time fails
MetadataUnreadable(i) ==
    /\ args.skip_newer
    /\ IsSome(Entries[i].modified)
    /\ Target(i).exists
    /\ Target(i).meta # "ok"

\* C14: with --skip-newer and a recorded modification time, an entry whose
\* target exists but whose metadata or modification time cannot be read is
\* classified Failed: it is neither Skipped nor Ok.
C14_MetadataUnreadableFailed ==
    \A i \in Classified : MetadataUnreadable(i) => Result(i).kind = "Failed"

\* C14, for fs::metadata alone: when the metadata itself cannot be read the
\* entry is Failed, and no entry whose metadata is unreadable is Skipped.
C14_MetadataErrFailed ==
    \A i \in Classified :
        MetadataUnreadable(i)
            => /\ Result(i).kind # "Skipped"
               /\ Target(i).meta \in {"err", "lost"} => Result(i).kind = "Failed"
               /\ Target(i).meta = "lost" => Result(i) = VFailed(<<"Cannot read metadata">>)

\* the policy does not apply to entry i: --skip-newer is off, or the entry
\* records no time, or the target is as old as recorded or older
OutsidePolicy(i) ==
    \/ ~args.skip_newer
    \/ ~IsSome(Entries[i].modified)
    \/ Target(i).meta = "ok" /\ Target(i).mtime <= Unwrap(Entries[i].modified)

\* C15: an entry is classified Skipped only if --skip-newer is on, the entry
\* records a modification time, the target exists and its modification time
\* is strictly greater than the recorded one; otherwise the digest comparison
\* decides the outcome of a target that can be read.
C15_SkippedOnlyUnderPolicy ==
    \A i \in Classified :
        /\ Result(i).kind = "Skipped" => NewerOnTarget(i)
        /\ OutsidePolicy(i) => Result(i).kind # "Skipped"
        /\ (OutsidePolicy(i) /\ path_exists(Target(i)) /\ Target(i).readable)
              => Result(i).kind = IF HashOf(Target(i).content, algorithm) = Entries[i].hash
                                  THEN "Ok" ELSE "Failed"

C15_Witness ==
    \E i \in Classified :
        /\ args.skip_newer
        /\ IsSome(Entries[i].modified)
        /\ Target(i).exists
        /\ Target(i).meta = "ok"
        /\ Target(i).mtime = Unwrap(Entries[i].modified)
        /\ HashOf(Target(i).content, algorithm) # Entries[i].hash
        /\ Result(i).kind = "Failed"

\* C16: an entry whose target does not exist is classified Failed with the
\* reason "File not found", whatever --skip-newer, the recorded metadata and
\* the recorded digest are; no other reason (metadata, digest) is reported.
C16_NotFoundFirst ==
    \A i \in Classified :
        ~path_exists(Target(i)) => Result(i) = VFailed(<<"File not found">>)

C16_Witness ==
    \E i \in Classified :
        /\ ~Target(i).exists
        /\ args.skip_newer
        /\ IsSome(Entries[i].modified)
        /\ Result(i) = VFailed(<<"File not found">>)

\* the entries classified so far with an outcome of the given kind
OfKind(kind) == {i \in Classified : Result(i).kind = kind}

\* what the counters must hold while and after the workers run
Aggregated ==
    Verifying =>
        /\ Len(results) = Len(Entries)
        /\ \A i \in DOMAIN work : work[i] = "done" <=> IsSome(results[i])
        /\ \A i \in Classified :
              Result(i) = verify_single_file(Target(i), Entries[i], algorithm, args.skip_newer)
        /\ processed = Cardinality(OfKind("Ok"))
        /\ failed = Cardinality(OfKind("Failed"))
        /\ skipped = Cardinality(OfKind("Skipped"))
        /\ pc = "ver_done" =>
              /\ Classified = DOMAIN Entries
              /\ processed + failed + skipped = Len(Entries)

\* an outcome, once recorded, is never recorded again or changed
ClassifiedOnce ==
    (pc = "ver_par" /\ pc' \in {"ver_par", "ver_done"}) =>
        \A i \in DOMAIN results :
            IsSome(results[i]) => /\ results'[i] = results[i]
                                  /\ work'[i] = "done"

\* C17: in a verification run every manifest entry is classified exactly
\* once, its outcome depends only on the entry and its own target, the ok,
\* failed and skipped counters equal the numbers of entries with those
\* outcomes and add up to the total, whatever the interleaving of the workers.
C17_OrderIndependentAggregation == []Aggregated /\ [][ClassifiedOnce]_vars

\* two workers ran at once and entry 2 finished, Failed, before entry 1
C17_Witness ==
    /\ pc = "ver_par"
    /\ PoolSize(args.threads) > 1
    /\ Len(work) >= 2
    /\ work[1] = "running"
    /\ work[2] = "done"
    /\ failed = 1

\* the manifest of the finished work: every file processed, the entries
\* collected and sorted
CompleteManifest ==
    Serialize(ChecksumFile(args.algorithm, SortByPath(Collect(results, order))))

\* what was written to --output or stdout was written once, after all the
\* work, and is the complete sorted manifest
EmittedOnceComplete ==
    /\ Len(emitted) <= 1
    /\ pc = "gen_done" <=> Len(emitted) = 1
    /\ emitted # <<>> =>
          /\ \A i \in DOMAIN work : work[i] = "done"
          /\ processed + errors = Len(files)
          /\ emitted[1] = CompleteManifest
          /\ mfile.json = emitted[1]

\* C18: the manifest is emitted exactly once, only after every scanned file
\* has been processed and the entries sorted, and no partial manifest is
\* persisted in any reachable state.
C18_ManifestOnceNeverPartial ==
    /\ EmittedOnceComplete
    /\ mfile.status \in {"missing", "ok"}

\* what does hold: whatever is emitted is emitted once, after all the work,
\* and a write that succeeds leaves the complete sorted manifest
C18_EmittedOnceComplete ==
    /\ EmittedOnceComplete
    /\ (pc = "gen_done" /\ IsSome(args.output)) =>
          mfile = [status |-> "ok", json |-> CompleteManifest]

\* the only step that changes what is emitted or persisted is the one that
\* ends the parallel phase
C18_WrittenAtTheEnd ==
    [][(emitted' # emitted \/ mfile' # mfile) =>
         (pc = "gen_par" /\ pc' \in {"gen_done", "gen_aborted"}) \/ emitted' = <<>>]_vars

\* the items a worker has finished
Done == {i \in DOMAIN work : work[i] = "done"}
DoneNext == {i \in DOMAIN work' : work'[i] = "done"}

\* the counters in the states of a run
CountersBounded ==
    /\ processed \in Nat /\ errors \in Nat /\ failed \in Nat /\ skipped \in Nat
    /\ (pc \in {"gen_start", "ver_start"} \/ Done = {}) =>
          processed = 0 /\ errors = 0 /\ failed = 0 /\ skipped = 0
    /\ pc \in {"gen_par", "gen_done", "gen_aborted"} =>
          /\ processed + errors <= Len(files)
          /\ processed + errors = Cardinality(Done)
          /\ processed = Cardinality({i \in Done : IsSome(results[i])})
    /\ pc \in {"gen_done", "gen_aborted"} =>
          /\ processed = Len(Entries)
          /\ processed + errors = Len(files)
    /\ pc \in {"ver_par", "ver_done"} =>
          /\ errors = 0
          /\ processed + failed + skipped = Cardinality(Done)
          /\ processed + failed + skipped <= Len(Entries)

\* the counters in the steps of a run: none decreases, none grows by more
\* than one, and together they grow by one exactly when a worker finishes
\* an item
CountersStep ==
    pc' \notin {"gen_start", "ver_start"} =>
        /\ processed' \in {processed, processed + 1}
        /\ errors' \in {errors, errors + 1}
        /\ failed' \in {failed, failed + 1}
        /\ skipped' \in {skipped, skipped + 1}
        /\ (pc' = pc /\ pc \in {"gen_par", "ver_par"}) =>
              (processed' + errors' + failed' + skipped')
                 - (processed + errors + failed + skipped)
              = Cardinality(DoneNext) - Cardinality(Done)

\* C19: in generation and in verification the counters start at zero, never
\* decrease and grow by exactly one per file or entry handled; in generation
\* processed + errors never exceeds the number of scanned files, and at
\* completion processed is the number of manifest entries and
\* processed + errors the number of scanned files.
C19_MonotonicCounters == []CountersBounded /\ [][CountersStep]_vars

\* a generation run on two workers ended with a file that failed, finished
\* out of scan order
C19_Witness ==
    /\ pc = "gen_done"
    /\ PoolSize(args.threads) > 1
    /\ errors = 1
    /\ processed = 2
    /\ order # <<1, 2, 3>>

RECURSIVE ConcatChunks(_)
\* the chunks, one after the other
ConcatChunks(chunks) ==
    IF chunks = <<>> THEN <<>> ELSE Head(chunks) \o ConcatChunks(Tail(chunks))

\* C20: hash_file feeds one accumulator with every chunk read, in read order,
\* each chunk the bytes actually read and at most the buffer; it stops at the
\* first read of zero bytes and finalizes exactly once after it, so the result
\* is the digest of the whole content however the reads were chunked; when
\* the open or a read fails it returns an error, no digest, and never
\* finalizes.
C20_StreamingDigest ==
    /\ hf.pc \in {"loop", "done"} /\ hf.openable =>
          /\ ConcatChunks(hf.chunks) = SubSeq(hf.content, 1, hf.pos)
          /\ \A k \in DOMAIN hf.chunks :
                Len(hf.chunks[k]) >= 1 /\ Len(hf.chunks[k]) <= BufferSize
          /\ hf.hasher = HasherUpdate(hf.algorithm, HasherNew(hf.algorithm),
                                      SubSeq(hf.content, 1, hf.pos))
          /\ hf.reads >= Len(hf.chunks)
    /\ hf.pc \in {"open", "loop"} => hf.finalized = 0 /\ hf.result = None
    /\ hf.pc = "done" =>
          /\ IsSome(hf.result)
          /\ IF Unwrap(hf.result).ok
             THEN /\ hf.finalized = 1
                  /\ hf.pos = Len(hf.content)
                  /\ hf.reads = Len(hf.chunks) + 1
                  /\ Unwrap(hf.result).val = HashOf(hf.content, hf.algorithm)
                  /\ Unwrap(hf.result) = hash_file(File(a_txt, hf.content), hf.algorithm)
             ELSE /\ hf.finalized = 0
                  /\ Unwrap(hf.result) = Err
                  /\ ~hf.openable \/ hf.reads = hf.fail_at

\* a file of three bytes read in a chunk of one and a chunk of two
C20_Witness ==
    /\ hf.pc = "done"
    /\ Unwrap(hf.result).ok
    /\ Len(hf.content) = 3
    /\ Len(hf.chunks) = 2
    /\ Len(hf.chunks[1]) = 1
    /\ hf.reads = 3

\* a read that fails after a chunk was fed
C20_WitnessFailure ==
    /\ hf.pc = "done"
    /\ ~Unwrap(hf.result).ok
    /\ Len(hf.chunks) >= 1
    /\ hf.finalized = 0

\* the manifest file was written by a generation run without --skip-newer
GeneratedPlain == IsSome(manifest_args) /\ ~Unwrap(manifest_args).skip_newer

\* the outcome of entry i by existence and digest comparison only
ByDigestOnly(i) ==
    IF ~path_exists(Target(i)) THEN VFailed(<<"File not found">>)
    ELSE IF ~Target(i).readable THEN VFailed(<<"Cannot compute hash">>)
    ELSE IF HashOf(Target(i).content, algorithm) = Entries[i].hash THEN VOk
    ELSE VFailed(<<"Hash mismatch: expected ", Entries[i].hash, ", got ",
                   HashOf(Target(i).content, algorithm)>>)

====
